---------------------------- MODULE Spec2Model ----------------------------
(***************************************************************************)
(* A model of research-pulse (package ainewsfeed and its two entry         *)
(* scripts, generate_feed.py and run_feed.py).                             *)
(*                                                                         *)
(* Python values are modelled as follows.  A str is the sequence of its    *)
(* characters (each a one-character string), None is the one-element       *)
(* tuple None below, which is no character sequence, a list is a sequence  *)
(* and a dict is a function whose DOMAIN is the set of its keys.           *)
(***************************************************************************)
EXTENDS Naturals, Sequences, FiniteSets, TLC

None == <<"<None>">>

(***************************************************************************)
(* State.                                                                  *)
(***************************************************************************)
VARIABLES
    \* a call of the link extractor: its argument, what the argument was
    \* written from, and what each copy returned
    url_text, truth, url_f, url_fe,
    \* a call of one selector function: which one, its arguments, the
    \* collaborator's outcome, and what the call handed back
    sel_fn, sel_papers, sel_limit, sel_g, sel_ret, sel_pc,
    \* the output directory of the period: the cache file, the documents
    \* and previews by paper id, and whether the report is there
    cache_file, pdf_files, preview_files, report_file,
    \* the configuration, and the parameters of the function bound to
    \* ainewsfeed.get_arxiv_papers
    cfg, feed_params,
    \* a run of generate_feed.main or run_feed.main: which of the two (entry),
    \* --force, what the feed holds for the
    \* period, the position in main, its locals, the collaborator calls made
    \* so far, each download made, what generate_report was given, and how
    \* the process ended
    entry, force, feed, pc, raw_papers, enriched, idx, steps, downloads, handed, outcome,
    \* one entry per run started
    run_log,
    \* a call of extract_figures: the document, max_figures, and what the
    \* call handed back
    fig_doc, fig_max, fig_ret, fig_pc,
    \* a list of records, the cache file written from it, and what reading
    \* the file gave
    rt_list, rt_file, rt_back, rt_pc

urlVars == <<url_text, truth, url_f, url_fe>>
selVars == <<sel_fn, sel_papers, sel_limit, sel_g, sel_ret, sel_pc>>
fsVars == <<cache_file, pdf_files, preview_files, report_file>>
runVars == <<entry, force, feed, pc, raw_papers, enriched, idx, steps, downloads, handed, outcome>>
pipeVars == <<fsVars, cfg, feed_params, runVars, run_log>>
figVars == <<fig_doc, fig_max, fig_ret, fig_pc>>
rtVars == <<rt_list, rt_file, rt_back, rt_pc>>
vars == <<urlVars, selVars, pipeVars, figVars, rtVars>>

(***************************************************************************)
(* Character classes and string literals of the source.                    *)
(***************************************************************************)
LowerSeq ==
    <<"a","b","c","d","e","f","g","h","i","j","k","l","m","n","o","p","q","r","s","t","u","v","w","x","y","z">>
UpperSeq ==
    <<"A","B","C","D","E","F","G","H","I","J","K","L","M","N","O","P","Q","R","S","T","U","V","W","X","Y","Z">>
DigitSeq ==
    <<"0","1","2","3","4","5","6","7","8","9">>
SchemeHttp ==
    <<"h","t","t","p",":","/","/">>
SchemeHttps ==
    <<"h","t","t","p","s",":","/","/">>
ExArxiv ==
    <<"a","r","x","i","v",".","o","r","g">>
ExDoi ==
    <<"d","o","i",".","o","r","g">>
ExCC ==
    <<"c","r","e","a","t","i","v","e","c","o","m","m","o","n","s",".","o","r","g">>
ExLicense ==
    <<"l","i","c","e","n","s","e">>
ExOverleaf ==
    <<"o","v","e","r","l","e","a","f",".","c","o","m">>
ExGithub ==
    <<"g","i","t","h","u","b",".","c","o","m">>
YtWatch ==
    <<"y","o","u","t","u","b","e",".","c","o","m","/","w","a","t","c","h">>
YtShort ==
    <<"y","o","u","t","u",".","b","e">>
EmbedPrefix ==
    <<"h","t","t","p","s",":","/","/","w","w","w",".","y","o","u","t","u","b","e",".","c","o","m","/","e","m","b","e","d","/">>
SplitV ==
    <<"v","=">>
SplitAmp ==
    <<"&">>
SplitSlash ==
    <<"/">>
UrlArxiv ==
    <<"h","t","t","p","s",":","/","/","a","r","x","i","v",".","o","r","g","/","a","b","s","/","1">>
UrlGithub ==
    <<"h","t","t","p","s",":","/","/","G","i","t","H","u","b",".","c","o","m","/","a","/","b">>
UrlPages ==
    <<"h","t","t","p","s",":","/","/","a",".","g","i","t","h","u","b",".","i","o","/","p">>
UrlCustom ==
    <<"h","t","t","p",":","/","/","x",".","a","i","/","d">>
UrlShort ==
    <<"h","t","t","p","s",":","/","/","y","o","u","t","u",".","b","e","/","a","B","1">>
UrlWatch ==
    <<"h","t","t","p","s",":","/","/","w","w","w",".","y","o","u","t","u","b","e",".","c","o","m","/","w","a","t","c","h","?","v","=","a","B","1">>
VideoId ==
    <<"a","B","1">>
WordSee ==
    <<"s","e","e">>
SepSpace ==
    <<" ">>
SepPeriod ==
    <<"."," ">>

Range(s) == {s[i] : i \in 1..Len(s)}

\* \w of a str pattern: letters, digits and the underscore.
IsWordChar(c) == c \in Range(LowerSeq) \cup Range(UpperSeq) \cup Range(DigitSeq) \cup {"_"}

\* [\da-fA-F]
IsHexChar(c) == c \in Range(DigitSeq) \cup {"a","b","c","d","e","f","A","B","C","D","E","F"}

\* str.lower() on one character.
LowerChar(c) ==
    IF \E i \in 1..Len(UpperSeq) : UpperSeq[i] = c
    THEN LowerSeq[CHOOSE i \in 1..Len(UpperSeq) : UpperSeq[i] = c]
    ELSE c

\* str.lower()
Lower(s) == [i \in 1..Len(s) |-> LowerChar(s[i])]

\* s[i:i+len(sub)] == sub
OccursAt(s, sub, i) ==
    /\ i >= 1
    /\ i + Len(sub) - 1 <= Len(s)
    /\ \A k \in 1..Len(sub) : s[i + k - 1] = sub[k]

\* sub in s
Contains(s, sub) == \E i \in 1..(Len(s) + 1) : OccursAt(s, sub, i)

\* s.split(sub)[-1]: what follows the last occurrence of sub, or all of s.
SplitLast(s, sub) ==
    IF Contains(s, sub)
    THEN LET i == CHOOSE j \in 1..Len(s) :
                      /\ OccursAt(s, sub, j)
                      /\ \A k \in (j + 1)..Len(s) : ~OccursAt(s, sub, k)
         IN  SubSeq(s, i + Len(sub), Len(s))
    ELSE s

\* s.split(sub)[0]: what precedes the first occurrence of sub, or all of s.
SplitFirst(s, sub) ==
    IF Contains(s, sub)
    THEN LET i == CHOOSE j \in 1..Len(s) :
                      /\ OccursAt(s, sub, j)
                      /\ \A k \in 1..(j - 1) : ~OccursAt(s, sub, k)
         IN  SubSeq(s, 1, i - 1)
    ELSE s

(***************************************************************************)
(* The URL pattern  https?://(?:[-\w.]|(?:%[\da-fA-F]{2}))+[/\w\.-]*       *)
(* and re.findall: leftmost, greedy, non-overlapping matches.              *)
(***************************************************************************)

\* Length of the scheme  https?://  at position i, 0 when it is not there.
SchemeLen(t, i) ==
    IF OccursAt(t, SchemeHttps, i) THEN Len(SchemeHttps)
    ELSE IF OccursAt(t, SchemeHttp, i) THEN Len(SchemeHttp)
    ELSE 0

\* Length of one item of  (?:[-\w.]|(?:%[\da-fA-F]{2}))  at position i, or 0.
HostItemLen(t, i) ==
    IF i > Len(t) THEN 0
    ELSE IF IsWordChar(t[i]) \/ t[i] \in {"-", "."} THEN 1
    ELSE IF /\ t[i] = "%"
            /\ i + 2 <= Len(t)
            /\ IsHexChar(t[i + 1])
            /\ IsHexChar(t[i + 2]) THEN 3
    ELSE 0

\* First position after the longest run of host items that starts at i.
RECURSIVE HostEnd(_, _)
HostEnd(t, i) ==
    IF HostItemLen(t, i) = 0 THEN i ELSE HostEnd(t, i + HostItemLen(t, i))

\* [/\w\.-]
IsPathChar(c) == IsWordChar(c) \/ c \in {"/", ".", "-"}

\* First position after the longest run of path characters that starts at i.
RECURSIVE PathEnd(_, _)
PathEnd(t, i) ==
    IF i <= Len(t) /\ IsPathChar(t[i]) THEN PathEnd(t, i + 1) ELSE i

\* filter.py: first position after the match that starts at i, 0 for no match.
MatchEnd(t, i) ==
    LET s == SchemeLen(t, i)
        h == HostEnd(t, i + s)
    IN  IF s = 0 \/ h = i + s THEN 0 ELSE PathEnd(t, h)

\* filter_and_enrich.py: the same pattern followed by (?<!\.) : the engine
\* gives characters back until the match does not end in a period; at least
\* one host item has to stay.
MatchEndNoDot(t, i) ==
    LET s == SchemeLen(t, i)
        e == MatchEnd(t, i)
        ends == {j \in (i + s + 1)..e : t[j - 1] # "."}
    IN  IF e = 0 \/ ends = {} THEN 0
        ELSE CHOOSE j \in ends : \A k \in ends : k <= j

\* re.findall(url_pattern, text) of filter.py, scanning from position i.
RECURSIVE FindAllFrom(_, _)
FindAllFrom(t, i) ==
    IF i > Len(t) THEN <<>>
    ELSE LET e == MatchEnd(t, i)
         IN  IF e = 0 THEN FindAllFrom(t, i + 1)
             ELSE <<SubSeq(t, i, e - 1)>> \o FindAllFrom(t, e)

\* re.findall(url_pattern, text) of filter_and_enrich.py.
RECURSIVE FindAllNoDotFrom(_, _)
FindAllNoDotFrom(t, i) ==
    IF i > Len(t) THEN <<>>
    ELSE LET e == MatchEndNoDot(t, i)
         IN  IF e = 0 THEN FindAllNoDotFrom(t, i + 1)
             ELSE <<SubSeq(t, i, e - 1)>> \o FindAllNoDotFrom(t, e)

\* The academic/meta exclusion list, and the repository rule.
ExcludedWords == {ExArxiv, ExDoi, ExCC, ExLicense, ExOverleaf}

IsExcluded(url) ==
    LET lower_url == Lower(url)
    IN  \/ \E x \in ExcludedWords : Contains(lower_url, x)
        \/ Contains(lower_url, ExGithub)

\* The video rules, and the plain return, for a URL that is not excluded.
RewriteUrl(url) ==
    IF Contains(url, YtWatch)
    THEN EmbedPrefix \o SplitFirst(SplitLast(url, SplitV), SplitAmp)
    ELSE IF Contains(url, YtShort)
    THEN EmbedPrefix \o SplitLast(url, SplitSlash)
    ELSE url

\* The loop over urls: the first one that is not excluded decides.
RECURSIVE FirstValid(_)
FirstValid(urls) ==
    IF urls = <<>> THEN None
    ELSE IF IsExcluded(Head(urls)) THEN FirstValid(Tail(urls))
    ELSE RewriteUrl(Head(urls))

\* "not x" for x a str or None.
Falsy(x) == x = None \/ x = <<>>

\* ainewsfeed.filter.extract_project_url
extract_project_url(text) ==
    IF Falsy(text) THEN None ELSE FirstValid(FindAllFrom(text, 1))

\* ainewsfeed.filter_and_enrich.extract_project_url
extract_project_url_fe(text) ==
    IF Falsy(text) THEN None ELSE FirstValid(FindAllNoDotFrom(text, 1))



(***************************************************************************)
(* Lists, dicts and exceptions.                                            *)
(***************************************************************************)

Min(a, b) == IF a <= b THEN a ELSE b

\* s[:n] for n >= 0
Take(s, n) == SubSeq(s, 1, Min(n, Len(s)))

\* d.get(k, default), and d[k] = v on a copy of d.
Get(d, k, default) == IF k \in DOMAIN d THEN d[k] ELSE default
Put(d, k, v) == [x \in DOMAIN d \cup {k} |-> IF x = k THEN v ELSE d[x]]

\* What a call hands back: a value, or an exception that left the callee.
Returned(v) == [raised |-> FALSE, value |-> v]
Raised == [raised |-> TRUE, value |-> <<>>]

(***************************************************************************)
(* The ranking collaborator (google.genai) as the callers see it.  One     *)
(* call has one outcome: building the client raises, generate_content      *)
(* raises, or a response comes back whose text json.loads turns into a     *)
(* value or rejects.  A parsed value carries its Python type:              *)
(*   <<"null">>, <<"string", s>>, <<"number", n>>, <<"array", items>>,     *)
(*   <<"object", d>> with d a dict.                                        *)
(***************************************************************************)
JNull == <<"null">>
JStr(s) == <<"string", s>>
JNum(n) == <<"number", n>>
JArr(a) == <<"array", a>>
JObj(d) == <<"object", d>>

IsJStr(v) == v[1] = "string"
IsJArr(v) == v[1] = "array"
IsJObj(v) == v[1] = "object"

\* response.text that json.loads rejects (JSONDecodeError).
Garbage == <<"garbage">>

ClientRaises == [client_ok |-> FALSE, call_ok |-> FALSE, body |-> Garbage]
CallRaises == [client_ok |-> TRUE, call_ok |-> FALSE, body |-> Garbage]
Responds(body) == [client_ok |-> TRUE, call_ok |-> TRUE, body |-> body]

(***************************************************************************)
(* ainewsfeed.filter: has_project_link, filter_papers,                     *)
(* enrich_with_summaries.  papers is a list of dicts; the functions change *)
(* the dicts in place, so what they return is what the caller's list holds.*)
(***************************************************************************)
NoSummaryDefault ==
    <<"N","o"," ","s","u","m","m","a","r","y"," ","a","v","a","i","l","a","b","l","e",".">>
CouldNotDefault ==
    <<"C","o","u","l","d"," ","n","o","t"," ","g","e","n","e","r","a","t","e"," ","s","u","m","m","a","r","y",".">>

\* The default of data.get('star_rating', ...): five empty stars.
NoStarsDefault == <<"<empty star>", "<empty star>", "<empty star>", "<empty star>", "<empty star>">>

\* papers[:5] of filter_papers' except branch.
FallbackCount == 5

\* sort_order.get(x['id'], 999)
SortDefault == 999

\* has_project_link(paper)
has_project_link(paper) ==
    IF ~Falsy(extract_project_url(Get(paper, "abstract", <<>>))) THEN TRUE
    ELSE IF ~Falsy(extract_project_url(Get(paper, "comment", <<>>))) THEN TRUE
    ELSE FALSE

\* The prompt, kept as what is written into it.
PromptOf(papers, limit, fields) ==
    [limit |-> limit,
     papers |-> [i \in 1..Len(papers) |-> [k \in fields |-> papers[i][k]]]]

EmptyPrompt == [limit |-> 0, papers |-> <<>>]

\* p['id'] in selected_ids: a TypeError unless selected_ids is a container.
CanContain(v) == v[1] \in {"array", "object", "string"}

IdIn(id, v) ==
    IF IsJArr(v) THEN \E i \in 1..Len(v[2]) : v[2][i] = JStr(id)
    ELSE IF IsJObj(v) THEN id \in DOMAIN v[2]
    ELSE Contains(v[2], id)

\* [p for p in papers if p['id'] in selected_ids]
RECURSIVE PapersNamedIn(_, _)
PapersNamedIn(papers, v) ==
    IF papers = <<>> THEN <<>>
    ELSE IF IdIn(Head(papers)["id"], v)
    THEN <<Head(papers)>> \o PapersNamedIn(Tail(papers), v)
    ELSE PapersNamedIn(Tail(papers), v)

\* filter_papers(papers, user_interests, api_key, limit), g the outcome of
\* the collaborator.
filter_papers(papers, g, limit) ==
    IF papers = <<>> THEN Returned([papers |-> <<>>, prompt |-> EmptyPrompt])
    ELSE IF ~g.client_ok THEN Raised
    ELSE LET prompt == PromptOf(papers, limit, {"id", "title"})
             fallback == Returned([papers |-> Take(papers, FallbackCount),
                                   prompt |-> prompt])
         IN  IF ~g.call_ok \/ g.body = Garbage THEN fallback
             ELSE IF ~CanContain(g.body) THEN fallback
             ELSE Returned([papers |-> Take(PapersNamedIn(papers, g.body), limit),
                            prompt |-> prompt])

WithProjectUrlMutant(p) ==
    LET c == extract_project_url(Get(p, "comment", <<>>))
        url == IF Falsy(c) THEN extract_project_url(p["abstract"]) ELSE c
    IN  Put(p, "project_url", url)

\* Step 1 of enrich_with_summaries: the project URL of one paper.
WithProjectUrl(p) ==
    LET a == extract_project_url(p["abstract"])
        url == IF Falsy(a) THEN extract_project_url(Get(p, "comment", <<>>)) ELSE a
    IN  Put(p, "project_url", url)

\* summaries.get(p['id'], "Could not generate summary.") for summaries a dict;
\* the value of a summary is whatever the response holds for it.
SummaryValue(v) == IF IsJStr(v) THEN v[2] ELSE v

WithSummary(p, summaries) ==
    Put(p, "ai_summary",
        IF p["id"] \in DOMAIN summaries THEN SummaryValue(summaries[p["id"]])
        ELSE CouldNotDefault)

\* enrich_with_summaries(papers, user_interests, api_key)
enrich_with_summaries(papers, g) ==
    IF papers = <<>> THEN Returned(<<>>)
    ELSE LET linked == [i \in 1..Len(papers) |-> WithProjectUrl(papers[i])]
         IN  IF ~g.client_ok THEN Raised
             ELSE IF ~g.call_ok \/ g.body = Garbage THEN Returned(linked)
             ELSE IF ~IsJObj(g.body) THEN Returned(linked)
             ELSE Returned([i \in 1..Len(linked) |-> WithSummary(linked[i], g.body[2])])

(***************************************************************************)
(* ainewsfeed.filter_and_enrich: filter_and_enrich_papers_with_gemini.     *)
(***************************************************************************)

\* {item['id']: item for item in results} raises unless results is a list
\* of dicts that each have a hashable 'id' (iterating a dict or a non-empty
\* str yields str items, and item['id'] on a str is a TypeError).
IsHashable(v) == v[1] \in {"null", "string", "number"}

CanBuildMap(results) ==
    \/ /\ IsJArr(results)
       /\ \A i \in 1..Len(results[2]) :
              /\ IsJObj(results[2][i])
              /\ "id" \in DOMAIN results[2][i][2]
              /\ IsHashable(results[2][i][2]["id"])
    \/ /\ IsJObj(results)
       /\ DOMAIN results[2] = {}
    \/ results = JStr(<<>>)

ResultItems(results) == IF IsJArr(results) THEN results[2] ELSE <<>>

\* Positions of the items of the response that name id.
PositionsOf(items, id) == {i \in 1..Len(items) : items[i][2]["id"] = JStr(id)}

Last(S) == CHOOSE i \in S : \A j \in S : j <= i

\* enrichment_map[id] and sort_order[id]: in a dict comprehension a later
\* item with the same key replaces the earlier one.
EnrichmentOf(items, id) == items[Last(PositionsOf(items, id))][2]
SortIndexOf(items, id) ==
    IF PositionsOf(items, id) = {} THEN SortDefault
    ELSE Last(PositionsOf(items, id)) - 1

\* The body of the loop over papers for one paper named in the response.
Enriched(p, data) ==
    LET p1 == Put(p, "ai_summary",
                  IF "summary" \in DOMAIN data THEN SummaryValue(data["summary"])
                  ELSE NoSummaryDefault)
        p2 == Put(p1, "star_rating",
                  IF "star_rating" \in DOMAIN data THEN SummaryValue(data["star_rating"])
                  ELSE NoStarsDefault)
        a == extract_project_url_fe(Get(p, "abstract", <<>>))
        url == IF Falsy(a) THEN extract_project_url_fe(Get(p, "comment", <<>>)) ELSE a
    IN  Put(p2, "project_url", url)

RECURSIVE FinalPapers(_, _)
FinalPapers(papers, items) ==
    IF papers = <<>> THEN <<>>
    ELSE IF PositionsOf(items, Head(papers)["id"]) # {}
    THEN <<Enriched(Head(papers), EnrichmentOf(items, Head(papers)["id"]))>>
             \o FinalPapers(Tail(papers), items)
    ELSE FinalPapers(Tail(papers), items)

\* list.sort(key=...): a stable sort, here by insertion.
RECURSIVE InsertByKey(_, _, _)
InsertByKey(sorted, p, items) ==
    IF sorted = <<>> THEN <<p>>
    ELSE IF SortIndexOf(items, p["id"]) < SortIndexOf(items, Head(sorted)["id"])
    THEN <<p>> \o sorted
    ELSE <<Head(sorted)>> \o InsertByKey(Tail(sorted), p, items)

RECURSIVE SortByResponse(_, _)
SortByResponse(papers, items) ==
    IF papers = <<>> THEN <<>>
    ELSE InsertByKey(SortByResponse(SubSeq(papers, 1, Len(papers) - 1), items),
                     papers[Len(papers)], items)

\* filter_and_enrich_papers_with_gemini(papers, user_interests, api_key, limit)
filter_and_enrich_papers_with_gemini(papers, g, limit) ==
    IF ~g.client_ok THEN Raised
    ELSE LET prompt == PromptOf(papers, limit, {"id", "title", "abstract"})
             fallback == Returned([papers |-> Take(papers, limit), prompt |-> prompt])
         IN  IF ~g.call_ok \/ g.body = Garbage THEN fallback
             ELSE IF ~CanBuildMap(g.body) THEN fallback
             ELSE LET items == ResultItems(g.body)
                      final_papers == SortByResponse(FinalPapers(papers, items), items)
                  IN  Returned([papers |-> Take(final_papers, limit), prompt |-> prompt])

(***************************************************************************)
(* json.dump / json.load of the cache file (generate_feed.py:96-97 and     *)
(* 190-191).  A file's content is the sequence of JSON tokens written to   *)
(* it (white space left out): punctuation, null, <<"num", n>>,             *)
(* <<"key", k>> for an object's key and <<"str", chars>> for a string,     *)
(* chars being the escaped text between the quotes.                        *)
(***************************************************************************)
TokLBracket == <<"[">>
TokRBracket == <<"]">>
TokLBrace == <<"{">>
TokRBrace == <<"}">>
TokComma == <<",">>
TokColon == <<":">>
TokNull == <<"null">>
TokStr(chars) == <<"str", chars>>
TokKey(k) == <<"key", k>>
TokNum(n) == <<"num", n>>

\* The glyph of NoStarsDefault, which is not ASCII.
EmptyStar == "<empty star>"

EscapeCharMutant(c) ==
    IF c = "\"" THEN <<"\\", "\"">>
    ELSE IF c = "\n" THEN <<"\\", "n">>
    ELSE IF c = EmptyStar THEN <<"\\", "u", "2", "6", "0", "6">>
    ELSE <<c>>

\* json's string escapes (ensure_ascii=True) for the characters that occur.
EscapeChar(c) ==
    IF c = "\"" THEN <<"\\", "\"">>
    ELSE IF c = "\\" THEN <<"\\", "\\">>
    ELSE IF c = "\n" THEN <<"\\", "n">>
    ELSE IF c = EmptyStar THEN <<"\\", "u", "2", "6", "0", "6">>
    ELSE <<c>>

RECURSIVE Escape(_)
Escape(s) == IF s = <<>> THEN <<>> ELSE EscapeChar(Head(s)) \o Escape(Tail(s))

RECURSIVE Unescape(_)
Unescape(e) ==
    IF e = <<>> THEN <<>>
    ELSE IF Head(e) # "\\" THEN <<Head(e)>> \o Unescape(Tail(e))
    ELSE IF e[2] = "n" THEN <<"\n">> \o Unescape(SubSeq(e, 3, Len(e)))
    ELSE IF e[2] = "u" THEN <<EmptyStar>> \o Unescape(SubSeq(e, 7, Len(e)))
    ELSE <<e[2]>> \o Unescape(SubSeq(e, 3, Len(e)))

\* The keys of a record in the order the program inserts them, and the
\* Python type each holds.
PaperKeyOrder ==
    <<"id", "title", "abstract", "comment", "authors_simple", "url", "published",
      "project_url", "ai_summary", "star_rating", "authors_full", "local_pdf",
      "pdf_preview", "tweets">>

TweetKeyOrder == <<"text", "author_name", "author_handle", "likes", "retweets", "url">>

OptStrKeys == {"project_url", "pdf_preview"}
StrListKeys == {"authors_simple"}
IntKeys == {"likes", "retweets"}

DumpStr(s) == <<TokStr(Escape(s))>>
DumpOptStr(v) == IF v = None THEN <<TokNull>> ELSE DumpStr(v)

\* A list: [ item , item ... ], dumped being the items' token sequences.
RECURSIVE JoinComma(_)
JoinComma(dumped) ==
    IF dumped = <<>> THEN <<>>
    ELSE IF Len(dumped) = 1 THEN dumped[1]
    ELSE dumped[1] \o <<TokComma>> \o JoinComma(Tail(dumped))

DumpList(dumped) == <<TokLBracket>> \o JoinComma(dumped) \o <<TokRBracket>>

DumpTweetField(k, v) == IF k \in IntKeys THEN <<TokNum(v)>> ELSE DumpStr(v)

\* The keys of d, in insertion order.
KeysOf(d, order) == SelectSeq(order, LAMBDA k : k \in DOMAIN d)

DumpTweet(t) ==
    LET keys == KeysOf(t, TweetKeyOrder)
    IN  <<TokLBrace>>
        \o JoinComma([i \in 1..Len(keys) |->
               <<TokKey(keys[i]), TokColon>> \o DumpTweetField(keys[i], t[keys[i]])])
        \o <<TokRBrace>>

DumpPaperField(k, v) ==
    IF k \in OptStrKeys THEN DumpOptStr(v)
    ELSE IF k \in StrListKeys THEN DumpList([i \in 1..Len(v) |-> DumpStr(v[i])])
    ELSE IF k = "tweets" THEN DumpList([i \in 1..Len(v) |-> DumpTweet(v[i])])
    ELSE DumpStr(v)

DumpPaper(p) ==
    LET keys == KeysOf(p, PaperKeyOrder)
    IN  <<TokLBrace>>
        \o JoinComma([i \in 1..Len(keys) |->
               <<TokKey(keys[i]), TokColon>> \o DumpPaperField(keys[i], p[keys[i]])])
        \o <<TokRBrace>>

\* json.dump(enriched, f, indent=2): everything written when it succeeds.
Dumps(papers) == DumpList([i \in 1..Len(papers) |-> DumpPaper(papers[i])])

\* json.load: a recursive-descent parse of the tokens.  A parse step gives
\* the value and the position after it, or fails.
ParseFail == [ok |-> FALSE, v |-> <<>>, next |-> 0]
Parsed(v, next) == [ok |-> TRUE, v |-> v, next |-> next]

RECURSIVE ParseValue(_, _), ParseElems(_, _, _, _), ParseMembers(_, _, _, _)

ParseValue(toks, i) ==
    IF i > Len(toks) THEN ParseFail
    ELSE LET t == toks[i]
         IN  IF t = TokNull THEN Parsed(None, i + 1)
             ELSE IF t[1] = "str" THEN Parsed(Unescape(t[2]), i + 1)
             ELSE IF t[1] = "num" THEN Parsed(t[2], i + 1)
             ELSE IF t = TokLBracket THEN ParseElems(toks, i + 1, <<>>, TRUE)
             ELSE IF t = TokLBrace THEN ParseMembers(toks, i + 1, <<>>, TRUE)
             ELSE ParseFail

\* The elements of an array from position i on; acc holds those read.
ParseElems(toks, i, acc, first) ==
    IF i > Len(toks) THEN ParseFail
    ELSE IF first /\ toks[i] = TokRBracket THEN Parsed(acc, i + 1)
    ELSE LET r == ParseValue(toks, i)
         IN  IF ~r.ok \/ r.next > Len(toks) THEN ParseFail
             ELSE IF toks[r.next] = TokComma
             THEN ParseElems(toks, r.next + 1, Append(acc, r.v), FALSE)
             ELSE IF toks[r.next] = TokRBracket
             THEN Parsed(Append(acc, r.v), r.next + 1)
             ELSE ParseFail

\* The members of an object from position i on; a repeated key keeps the
\* later value.
ParseMembers(toks, i, acc, first) ==
    IF i > Len(toks) THEN ParseFail
    ELSE IF first /\ toks[i] = TokRBrace THEN Parsed(acc, i + 1)
    ELSE IF toks[i][1] # "key" \/ i + 2 > Len(toks) THEN ParseFail
    ELSE IF toks[i + 1] # TokColon THEN ParseFail
    ELSE LET r == ParseValue(toks, i + 2)
         IN  IF ~r.ok \/ r.next > Len(toks) THEN ParseFail
             ELSE IF toks[r.next] = TokComma
             THEN ParseMembers(toks, r.next + 1, Put(acc, toks[i][2], r.v), FALSE)
             ELSE IF toks[r.next] = TokRBrace
             THEN Parsed(Put(acc, toks[i][2], r.v), r.next + 1)
             ELSE ParseFail

\* json.load(f): the value, or JSONDecodeError for anything else than one
\* complete JSON text.
Loads(toks) ==
    LET r == ParseValue(toks, 1)
    IN  IF r.ok /\ r.next = Len(toks) + 1 THEN Returned(r.v) ELSE Raised

(***************************************************************************)
(* Candidate records as get_arxiv_papers builds them (fetch.py:28-36), for *)
(* three papers: one with a project link in its abstract and another in    *)
(* its comment, one with a project link in its comment only, one with no   *)
(* link but the feed's own.                                                *)
(***************************************************************************)
IdP1 ==
    <<"p","1">>
IdP2 ==
    <<"p","2">>
IdP3 ==
    <<"p","3">>
IdUnknown ==
    <<"z","z">>
TitleP1 ==
    <<"T","1">>
TitleP2 ==
    <<"T","2">>
TitleP3 ==
    <<"T","3">>
AbstractP1 ==
    <<"s","e","e"," ","h","t","t","p",":","/","/","x",".","a","i","/","d">>
AbstractP2 ==
    <<"n","e","w">>
CommentP1 ==
    <<"h","t","t","p",":","/","/","y",".","a","i","/","c">>
CommentP2 ==
    <<"h","t","t","p","s",":","/","/","a",".","g","i","t","h","u","b",".","i","o","/","p",".">>
AbstractP3 ==
    <<"h","t","t","p","s",":","/","/","a","r","x","i","v",".","o","r","g","/","a","b","s","/","1">>
UrlP1 ==
    <<"h","t","t","p",":","/","/","a","r","x","i","v",".","o","r","g","/","a","b","s","/","p","1">>
UrlP2 ==
    <<"h","t","t","p",":","/","/","a","r","x","i","v",".","o","r","g","/","a","b","s","/","p","2">>
UrlP3 ==
    <<"h","t","t","p",":","/","/","a","r","x","i","v",".","o","r","g","/","a","b","s","/","p","3">>
Published ==
    <<"2","0","2","6","-","0","1","-","0","5">>
AuthorA ==
    <<"A">>
AuthorB ==
    <<"B">>
SummaryText ==
    <<"s">>
StarsText ==
    <<"*","*","*">>

Candidate(id, title, abstract, comment, authors, url) ==
    [id |-> id, title |-> title, abstract |-> abstract, comment |-> comment,
     authors_simple |-> authors, url |-> url, published |-> Published]

P1 == Candidate(IdP1, TitleP1, AbstractP1, CommentP1, <<AuthorA, AuthorB>>, UrlP1)
P2 == Candidate(IdP2, TitleP2, AbstractP2, CommentP2, <<AuthorA>>, UrlP2)
P3 == Candidate(IdP3, TitleP3, AbstractP3, <<>>, <<AuthorB>>, UrlP3)

Catalog == {P1, P2, P3}

\* Lists of up to n different candidates, in any order.
CandidateLists(n) ==
    UNION {{s \in [1..k -> Catalog] : \A i, j \in 1..k : i # j => s[i] # s[j]} : k \in 0..n}

\* Identifiers a response can name: the candidates' and one that is none's.
NamedIds == {IdP1, IdP2, IdP3, IdUnknown}

(***************************************************************************)
(* The link extractor applied to texts.  A text is written from at most    *)
(* MaxItems items, each a word or a URL of a known kind followed by a      *)
(* separator; truth keeps the items the text was written from.             *)
(***************************************************************************)
MaxItems == 2

Pending == <<"<pending>">>

\* What a text can be written from: kind is what the URL is, video_id the
\* identifier a video URL carries.
ItemCatalog ==
    { [kind |-> "academic", s |-> UrlArxiv,  video_id |-> None],
      [kind |-> "repo",     s |-> UrlGithub, video_id |-> None],
      [kind |-> "page",     s |-> UrlPages,  video_id |-> None],
      [kind |-> "custom",   s |-> UrlCustom, video_id |-> None],
      [kind |-> "short",    s |-> UrlShort,  video_id |-> VideoId],
      [kind |-> "watch",    s |-> UrlWatch,  video_id |-> VideoId],
      [kind |-> "word",     s |-> WordSee,   video_id |-> None] }

Separators == {SepSpace, SepPeriod}

Items == {[item |-> it, sep |-> sp] : it \in ItemCatalog, sp \in Separators}

ItemLists == UNION {[1..n -> Items] : n \in 0..MaxItems}

RECURSIVE Written(_)
Written(its) ==
    IF its = <<>> THEN <<>>
    ELSE Head(its).item.s \o Head(its).sep \o Written(Tail(its))

UrlInit ==
    /\ truth \in ItemLists
    /\ url_text = Written(truth)
    /\ url_f = Pending
    /\ url_fe = Pending

UrlIdle ==
    /\ truth = <<>>
    /\ url_text = <<>>
    /\ url_f = Pending
    /\ url_fe = Pending

\* A call of ainewsfeed.filter.extract_project_url(text).
CallExtractFilter ==
    /\ url_f = Pending
    /\ url_f' = extract_project_url(url_text)
    /\ UNCHANGED <<url_text, truth, url_fe, selVars, pipeVars, figVars, rtVars>>

\* A call of ainewsfeed.filter_and_enrich.extract_project_url(text).
CallExtractFilterEnrich ==
    /\ url_fe = Pending
    /\ url_fe' = extract_project_url_fe(url_text)
    /\ UNCHANGED <<url_text, truth, url_f, selVars, pipeVars, figVars, rtVars>>


(***************************************************************************)
(* The selector functions called on their own: any list of up to           *)
(* MaxCandidates candidates, any limit up to MaxLimit, and any outcome of  *)
(* the collaborator, whose response names up to MaxNamed identifiers.      *)
(***************************************************************************)
MaxCandidates == 3
MaxLimit == 3
MaxNamed == 3

IdLists == UNION {[1..n -> NamedIds] : n \in 0..MaxNamed}

Digit(i) == DigitSeq[i + 1]

\* The i-th object of a list-of-objects response naming id.
RankedItem(id, i) ==
    JObj([id |-> JStr(id),
          star_rating |-> JStr(StarsText),
          summary |-> JStr(SummaryText \o <<Digit(i)>>)])

\* Bodies for filter_papers: a list of identifiers, or a number.
IdListBodies == {JArr([i \in 1..Len(ids) |-> JStr(ids[i])]) : ids \in IdLists} \cup {JNum(1)}

\* Bodies for filter_and_enrich_papers_with_gemini: a list of objects, an
\* object without 'summary' and 'star_rating', a list of strings, a number.
RankedBodies ==
    {JArr([i \in 1..Len(ids) |-> RankedItem(ids[i], i)]) : ids \in IdLists}
        \cup {JArr(<<JObj([id |-> JStr(IdP1)])>>), JArr(<<JStr(IdP1)>>), JNum(1)}

\* Bodies for enrich_with_summaries: a dict from identifiers to summaries,
\* or a list.
SummaryBodies ==
    {JObj([id \in S |-> JStr(SummaryText)]) : S \in SUBSET NamedIds}
        \cup {JArr(<<JStr(IdP1)>>)}

Outcomes(bodies) == {ClientRaises, CallRaises, Responds(Garbage)} \cup {Responds(b) : b \in bodies}

NotCalled == [raised |-> FALSE, value |-> <<>>]

SelInit ==
    /\ sel_fn \in {"filter_papers", "enrich_with_summaries", "filter_and_enrich"}
    /\ sel_papers \in CandidateLists(MaxCandidates)
    /\ sel_limit \in IF sel_fn = "enrich_with_summaries" THEN {0} ELSE 0..MaxLimit
    /\ sel_g \in CASE sel_fn = "filter_papers" -> Outcomes(IdListBodies)
                   [] sel_fn = "enrich_with_summaries" -> Outcomes(SummaryBodies)
                   [] OTHER -> Outcomes(RankedBodies)
    /\ sel_ret = NotCalled
    /\ sel_pc = "ready"

SelIdle ==
    /\ sel_fn = "none"
    /\ sel_papers = <<>>
    /\ sel_limit = 0
    /\ sel_g = ClientRaises
    /\ sel_ret = NotCalled
    /\ sel_pc = "idle"

Call_filter_papers ==
    /\ sel_pc = "ready" /\ sel_fn = "filter_papers"
    /\ sel_ret' = filter_papers(sel_papers, sel_g, sel_limit)
    /\ sel_pc' = "done"
    /\ UNCHANGED <<sel_fn, sel_papers, sel_limit, sel_g, urlVars, pipeVars, figVars, rtVars>>

Call_enrich_with_summaries ==
    /\ sel_pc = "ready" /\ sel_fn = "enrich_with_summaries"
    /\ sel_ret' = enrich_with_summaries(sel_papers, sel_g)
    /\ sel_pc' = "done"
    /\ UNCHANGED <<sel_fn, sel_papers, sel_limit, sel_g, urlVars, pipeVars, figVars, rtVars>>

Call_filter_and_enrich ==
    /\ sel_pc = "ready" /\ sel_fn = "filter_and_enrich"
    /\ sel_ret' = filter_and_enrich_papers_with_gemini(sel_papers, sel_g, sel_limit)
    /\ sel_pc' = "done"
    /\ UNCHANGED <<sel_fn, sel_papers, sel_limit, sel_g, urlVars, pipeVars, figVars, rtVars>>

(***************************************************************************)
(* ainewsfeed.assets: download_pdf and generate_pdf_preview.  What lies at *)
(* a document's path is "absent", "pdf" (the complete document),           *)
(* "error_page" (the body of an error response) or "partial" (a file that  *)
(* was opened for writing and not written to the end).                     *)
(***************************************************************************)
AbsSegment ==
    <<"/","a","b","s","/">>
PdfSegment ==
    <<"/","p","d","f","/">>
PdfSuffix ==
    <<".","p","d","f">>
RelAssetPath ==
    <<".","/","a","s","s","e","t","s","/","r">>
PreviewSuffix ==
    <<"_","p","r","e","v","i","e","w",".","p","n","g">>
CommaSpace ==
    <<","," ">>
Slash ==
    <<"/">>
DotSlash ==
    <<".","/">>
AffiliationText ==
    <<"A"," ","(","M","I","T",")">>

\* s.replace(old, new), for old not empty
RECURSIVE Replace(_, _, _)
Replace(s, old, new) ==
    IF s = <<>> THEN <<>>
    ELSE IF OccursAt(s, old, 1)
    THEN new \o Replace(SubSeq(s, Len(old) + 1, Len(s)), old, new)
    ELSE <<Head(s)>> \o Replace(Tail(s), old, new)

\* sep.join(parts)
RECURSIVE Join(_, _)
Join(sep, parts) ==
    IF parts = <<>> THEN <<>>
    ELSE IF Len(parts) = 1 THEN parts[1]
    ELSE parts[1] \o sep \o Join(sep, Tail(parts))

\* What requests.get and the write of the body can come to: a 200 response
\* with the document, a response with another status, an exception of
\* requests (no connection made, or none within the timeout), an OSError
\* while the body is written, and the process being stopped while the body
\* is written.
FetchOutcomes == {"ok", "http_error", "network_error", "write_error", "interrupted"}

\* download_pdf(pdf_url, output_path), file being what lies at output_path:
\* whether it raised, what it returned, what lies at the path afterwards,
\* and whether it asked the network.
download_pdf(file, net) ==
    IF file # "absent"
    THEN [raised |-> FALSE, success |-> TRUE, file |-> file, fetched |-> FALSE]
    ELSE CASE net = "ok" ->
                [raised |-> FALSE, success |-> TRUE, file |-> "pdf", fetched |-> TRUE]
           [] net = "http_error" ->
                [raised |-> FALSE, success |-> TRUE, file |-> "error_page", fetched |-> TRUE]
           [] net = "network_error" ->
                [raised |-> FALSE, success |-> FALSE, file |-> "absent", fetched |-> TRUE]
           [] net = "write_error" ->
                [raised |-> FALSE, success |-> FALSE, file |-> "partial", fetched |-> TRUE]
           [] OTHER ->
                [raised |-> TRUE, success |-> FALSE, file |-> "partial", fetched |-> TRUE]

\* f"{paper_id}_preview.png"
PreviewFilename(id) == id \o PreviewSuffix

\* generate_pdf_preview(pdf_path, paper_id, output_dir): the file name, or
\* None when the file does not open as a document or the page does not
\* render.
generate_pdf_preview(file, id, render_ok) ==
    IF file = "pdf" /\ render_ok THEN PreviewFilename(id) ELSE None

\* ainewsfeed.fetch.get_author_affiliations(paper_id), for the papers of the
\* catalog: the page of p1 names affiliations, the others' pages do not.
get_author_affiliations(id) == IF id = IdP1 THEN AffiliationText ELSE None

\* generate_feed.py:156-158
PdfUrlOf(paper) ==
    LET given == Get(paper, "pdf_url", None)
    IN  IF ~Falsy(given) THEN given
        ELSE Replace(paper["url"], AbsSegment, PdfSegment) \o PdfSuffix

PdfFilename(id) == id \o PdfSuffix

(***************************************************************************)
(* ainewsfeed.social.find_tweets_for_paper as main calls it: the list of   *)
(* tweets found for a title, empty on any failure.                         *)
(***************************************************************************)
TweetText ==
    <<"w","o","w">>
TweetAuthor ==
    <<"N">>
TweetHandle ==
    <<"h">>
TweetUrl ==
    <<"h","t","t","p","s",":","/","/","x",".","c","o","m","/","h","/","s","t","a","t","u","s","/","7">>


SampleTweet ==
    [text |-> TweetText, author_name |-> TweetAuthor, author_handle |-> TweetHandle,
     likes |-> 5, retweets |-> 0, url |-> TweetUrl]

\* found: the titles the search finds a tweet for
find_tweets_for_paper(title, found) == IF title \in found THEN <<SampleTweet>> ELSE <<>>

(***************************************************************************)
(* generate_feed.main, one action per step of the run.  A run ends         *)
(* "completed" (the report was written), "empty" (sys.exit(0) on an empty  *)
(* result) or "crashed" (an exception left main).                          *)
(***************************************************************************)
MaxRuns == 2
MaxSelected == 2

NoFile == [exists |-> FALSE, content |-> <<>>]
FileWith(content) == [exists |-> TRUE, content |-> content]

NotRendered == [rendered |-> FALSE, papers |-> <<>>]
Rendered(papers) == [rendered |-> TRUE, papers |-> papers]

PaperIds == {p["id"] : p \in Catalog}

\* The parameters of get_arxiv_papers (fetch.py:4), and the keywords main
\* passes to it (generate_feed.py:105-110).
GetArxivPapersParams == {"days", "max_results", "categories"}
FeedKeywords == {"start_date", "end_date", "max_results", "categories"}

\* The keywords run_feed.main passes (run_feed.py:56-60), and those of the
\* entry point e.
RunFeedKeywords == {"days", "max_results", "categories"}
KeywordsOf(e) == IF e = "generate_feed" THEN FeedKeywords ELSE RunFeedKeywords

Configs == [require_project_link : BOOLEAN, x_bearer : BOOLEAN, limit : 1..MaxSelected]

\* What the feed can hold for the period, and whether a request gets to it.
FeedResults == {<<>>, <<P3>>, <<P1, P2, P3>>}
FeedDown == [up |-> FALSE, papers |-> <<>>]
FeedStates == {FeedDown} \cup {[up |-> TRUE, papers |-> r] : r \in FeedResults}

\* Outcomes of the ranking call and of the summary call inside a run.
MainRankOutcomes ==
    {ClientRaises,
     Responds(JArr(<<>>)),
     Responds(JArr(<<JStr(IdP3), JStr(IdP1), JStr(IdUnknown)>>))}

MainSummaryOutcomes ==
    {ClientRaises, CallRaises,
     Responds(JObj([id \in {IdP1, IdP2} |-> JStr(SummaryText)]))}

\* generate_feed.py:152-177 for one record: d is what download_pdf did and
\* preview what generate_pdf_preview returned.
WithAuthorsFull(paper) ==
    LET affiliations == get_author_affiliations(paper["id"])
    IN  Put(paper, "authors_full",
            IF ~Falsy(affiliations) THEN affiliations
            ELSE Join(CommaSpace, Get(paper, "authors", <<>>)))

WithLocalPdf(paper, d) ==
    Put(paper, "local_pdf",
        IF d.success THEN RelAssetPath \o Slash \o PdfFilename(paper["id"])
        ELSE PdfUrlOf(paper))

WithPreview(paper, preview) == Put(paper, "pdf_preview", RelAssetPath \o Slash \o preview)

\* run_feed.py:115-143 for one record.
RunFeedAuthorsFull(paper) ==
    LET affiliations == get_author_affiliations(paper["id"])
    IN  Put(paper, "authors_full",
            IF ~Falsy(affiliations) THEN affiliations
            ELSE Join(CommaSpace, Get(paper, "authors_simple", <<>>)))

RunFeedPdfUrl(paper) == Replace(paper["url"], AbsSegment, PdfSegment) \o PdfSuffix

RunFeedLocalPdf(paper, d) ==
    Put(paper, "local_pdf",
        IF d.success THEN DotSlash \o PdfFilename(paper["id"])
        ELSE RunFeedPdfUrl(paper))

RunFeedPreview(paper, preview) == Put(paper, "pdf_preview", preview)

\* Records as a complete run leaves them in the cache.
SampleEnriched(papers) ==
    LET e == enrich_with_summaries(papers, Responds(JObj([id \in {IdP1} |-> JStr(SummaryText)]))).value
    IN  [i \in 1..Len(e) |->
            IF e[i]["id"] = IdP1
            THEN WithPreview(WithLocalPdf(WithAuthorsFull(e[i]), download_pdf("absent", "ok")),
                             PreviewFilename(IdP1))
            ELSE WithLocalPdf(WithAuthorsFull(e[i]), download_pdf("absent", "network_error"))]

SampleCaches == {FileWith(Dumps(SampleEnriched(<<P1>>))), FileWith(Dumps(SampleEnriched(<<P2, P1>>)))}

PipeInit(params, caches) ==
    /\ cache_file \in caches
    /\ pdf_files = [id \in PaperIds |-> "absent"]
    /\ preview_files = {}
    /\ report_file = FALSE
    /\ cfg \in Configs
    /\ feed_params = params
    /\ entry = "none"
    /\ force = FALSE
    /\ feed = FeedDown
    /\ pc = "idle"
    /\ raw_papers = <<>>
    /\ enriched = <<>>
    /\ idx = 0
    /\ steps = {}
    /\ downloads = <<>>
    /\ handed = NotRendered
    /\ outcome = "none"
    /\ run_log = <<>>

PipeIdle ==
    /\ PipeInit({}, {NoFile})
    /\ cfg = [require_project_link |-> FALSE, x_bearer |-> FALSE, limit |-> 1]

CacheHitMutant(exists, f) == exists /\ f

\* An exception leaves main / sys.exit(0)
Ends(how) ==
    /\ pc' = "exited"
    /\ outcome' = how

CacheHit(exists, f) == exists /\ ~f

\* generate_feed.py:60-90: the arguments, the paths, enriched = []
StartRun(f, feed_state) ==
    /\ pc \in {"idle", "exited"}
    /\ Len(run_log) < MaxRuns
    /\ entry' = "generate_feed"
    /\ force' = f
    /\ feed' = feed_state
    /\ pc' = "check_cache"
    /\ raw_papers' = <<>>
    /\ enriched' = <<>>
    /\ idx' = 0
    /\ steps' = {}
    /\ downloads' = <<>>
    /\ handed' = NotRendered
    /\ outcome' = "running"
    /\ run_log' = Append(run_log, [force |-> f, cached |-> cache_file.exists, producer |-> FALSE])
    /\ UNCHANGED <<fsVars, cfg, feed_params, urlVars, selVars, figVars, rtVars>>

\* run_feed.py:47-52: run_feed.main has no cache and no --force, and goes
\* straight into the pipeline.
StartRunFeed(feed_state) ==
    /\ pc \in {"idle", "exited"}
    /\ Len(run_log) < MaxRuns
    /\ entry' = "run_feed"
    /\ force' = FALSE
    /\ feed' = feed_state
    /\ pc' = "fetch"
    /\ raw_papers' = <<>>
    /\ enriched' = <<>>
    /\ idx' = 0
    /\ steps' = {}
    /\ downloads' = <<>>
    /\ handed' = NotRendered
    /\ outcome' = "running"
    /\ run_log' = Append(run_log, [force |-> FALSE, cached |-> cache_file.exists, producer |-> TRUE])
    /\ UNCHANGED <<fsVars, cfg, feed_params, urlVars, selVars, figVars, rtVars>>

\* generate_feed.py:93-101
CheckCache ==
    /\ pc = "check_cache"
    /\ IF CacheHit(cache_file.exists, force)
       THEN LET r == Loads(cache_file.content)
            IN  /\ IF r.raised
                   THEN Ends("crashed") /\ UNCHANGED enriched
                   ELSE enriched' = r.value /\ pc' = "report" /\ UNCHANGED outcome
                /\ UNCHANGED run_log
       ELSE /\ pc' = "fetch"
            /\ run_log' = [run_log EXCEPT ![Len(run_log)].producer = TRUE]
            /\ UNCHANGED <<enriched, outcome>>
    /\ UNCHANGED <<fsVars, cfg, feed_params, entry, force, feed, raw_papers, idx, steps,
                   downloads, handed, urlVars, selVars, figVars, rtVars>>

\* generate_feed.py:105-114, run_feed.py:56-64.  A keyword the callee has no parameter for is
\* a TypeError at the call.
Fetch ==
    /\ pc = "fetch"
    /\ steps' = steps \cup {"fetch"}
    /\ IF ~(KeywordsOf(entry) \subseteq feed_params) \/ ~feed.up
       THEN Ends("crashed") /\ UNCHANGED raw_papers
       ELSE IF feed.papers = <<>>
       THEN Ends("empty") /\ UNCHANGED raw_papers
       ELSE raw_papers' = feed.papers /\ pc' = "prefilter" /\ UNCHANGED outcome
    /\ UNCHANGED <<fsVars, cfg, feed_params, entry, force, feed, enriched, idx, downloads,
                   handed, run_log, urlVars, selVars, figVars, rtVars>>

\* generate_feed.py:117-122, run_feed.py:67-79
PreFilter ==
    /\ pc = "prefilter"
    /\ LET kept == IF cfg.require_project_link
                   THEN SelectSeq(raw_papers, has_project_link)
                   ELSE raw_papers
       IN  /\ raw_papers' = kept
           /\ IF kept = <<>>
              THEN Ends("empty")
              ELSE pc' = "filter" /\ UNCHANGED outcome
    /\ UNCHANGED <<fsVars, cfg, feed_params, entry, force, feed, enriched, idx, steps,
                   downloads, handed, run_log, urlVars, selVars, figVars, rtVars>>

\* generate_feed.py:126-136, run_feed.py:83-93
Filter(g) ==
    /\ pc = "filter"
    /\ steps' = steps \cup {"rank"}
    /\ LET r == filter_papers(raw_papers, g, cfg.limit)
       IN  IF r.raised
           THEN Ends("crashed") /\ UNCHANGED enriched
           ELSE /\ enriched' = r.value.papers
                /\ IF r.value.papers = <<>>
                   THEN Ends("empty")
                   ELSE pc' = "enrich" /\ UNCHANGED outcome
    /\ UNCHANGED <<fsVars, cfg, feed_params, entry, force, feed, raw_papers, idx, downloads,
                   handed, run_log, urlVars, selVars, figVars, rtVars>>

\* generate_feed.py:140-144, run_feed.py:99-108
Enrich(g) ==
    /\ pc = "enrich"
    /\ steps' = steps \cup {"summary"}
    /\ LET r == enrich_with_summaries(enriched, g)
       IN  IF r.raised
           THEN Ends("crashed") /\ UNCHANGED <<enriched, idx>>
           ELSE /\ enriched' = r.value
                /\ idx' = 1
                /\ pc' = IF r.value = <<>> THEN "social" ELSE "assets"
                /\ UNCHANGED outcome
    /\ UNCHANGED <<fsVars, cfg, feed_params, entry, force, feed, raw_papers, downloads,
                   handed, run_log, urlVars, selVars, figVars, rtVars>>

\* generate_feed.py:148-177 and run_feed.py:111-143, one pass of the loop.
\* In generate_feed.main a file name of None makes
\* assets_dir / preview_filename a TypeError; run_feed.main stores what
\* generate_pdf_preview returned.
AssetStep(net, render_ok) ==
    /\ pc = "assets"
    /\ LET paper == enriched[idx]
           id == paper["id"]
           gen == entry = "generate_feed"
           a == IF gen THEN WithAuthorsFull(paper) ELSE RunFeedAuthorsFull(paper)
           d == download_pdf(pdf_files[id], net)
           b == IF gen THEN WithLocalPdf(a, d) ELSE RunFeedLocalPdf(a, d)
           preview == generate_pdf_preview(d.file, id, render_ok)
           goes_on == /\ idx' = idx + 1
                      /\ pc' = IF idx = Len(enriched) THEN "social" ELSE "assets"
                      /\ UNCHANGED outcome
       IN  /\ pdf_files' = [pdf_files EXCEPT ![id] = d.file]
           /\ downloads' = Append(downloads,
                  [id |-> id, fetched |-> d.fetched,
                   url |-> IF gen THEN PdfUrlOf(paper) ELSE RunFeedPdfUrl(paper),
                   net |-> IF d.fetched THEN net ELSE "none",
                   raised |-> d.raised, success |-> d.success,
                   preview |-> IF d.raised \/ ~d.success THEN "none"
                               ELSE IF preview = None THEN "failed" ELSE "ok"])
           /\ IF d.raised
              THEN /\ steps' = steps \cup {"affiliation", "download"}
                   /\ enriched' = [enriched EXCEPT ![idx] = a]
                   /\ Ends("crashed")
                   /\ UNCHANGED <<idx, preview_files>>
              ELSE IF ~d.success
              THEN /\ steps' = steps \cup {"affiliation", "download"}
                   /\ enriched' = [enriched EXCEPT ![idx] = b]
                   /\ goes_on
                   /\ UNCHANGED preview_files
              ELSE IF gen /\ preview = None
              THEN /\ steps' = steps \cup {"affiliation", "download", "preview"}
                   /\ enriched' = [enriched EXCEPT ![idx] = b]
                   /\ Ends("crashed")
                   /\ UNCHANGED <<idx, preview_files>>
              ELSE /\ steps' = steps \cup {"affiliation", "download", "preview"}
                   /\ enriched' = [enriched EXCEPT ![idx] =
                          IF gen THEN WithPreview(b, preview) ELSE RunFeedPreview(b, preview)]
                   /\ preview_files' = IF preview = None THEN preview_files
                                       ELSE preview_files \cup {id}
                   /\ goes_on
    /\ UNCHANGED <<cache_file, report_file, cfg, feed_params, entry, force, feed, raw_papers,
                   handed, run_log, urlVars, selVars, figVars, rtVars>>

\* generate_feed.py:180-186, run_feed.py:146-152
Social(found) ==
    /\ pc = "social"
    /\ IF cfg.x_bearer
       THEN /\ steps' = steps \cup {"social"}
            /\ enriched' = [i \in 1..Len(enriched) |->
                   Put(enriched[i], "tweets",
                       find_tweets_for_paper(enriched[i]["title"], found))]
       ELSE UNCHANGED <<steps, enriched>>
    /\ pc' = IF entry = "generate_feed" THEN "save" ELSE "report"
    /\ UNCHANGED <<fsVars, cfg, feed_params, entry, force, feed, raw_papers, idx, downloads,
                   handed, outcome, run_log, urlVars, selVars, figVars, rtVars>>

\* How far json.dump gets: to the end, or open(data_file, "w") has emptied
\* the file and the write stops after none or after half of the text.
SaveOutcomes == {"ok", "stopped_at_start", "stopped_midway"}

\* generate_feed.py:190-191
SaveCache(how) ==
    /\ pc = "save"
    /\ LET all == Dumps(enriched)
       IN  CASE how = "ok" ->
                  /\ cache_file' = FileWith(all)
                  /\ pc' = "report"
                  /\ UNCHANGED outcome
             [] how = "stopped_at_start" ->
                  /\ cache_file' = FileWith(<<>>)
                  /\ Ends("crashed")
             [] OTHER ->
                  /\ cache_file' = FileWith(SubSeq(all, 1, Len(all) \div 2))
                  /\ Ends("crashed")
    /\ UNCHANGED <<pdf_files, preview_files, report_file, cfg, feed_params, entry, force, feed,
                   raw_papers, enriched, idx, steps, downloads, handed, run_log,
                   urlVars, selVars, figVars, rtVars>>

\* generate_feed.py:195 and run_feed.py:155-160, and the end of main
Report ==
    /\ pc = "report"
    /\ handed' = Rendered(enriched)
    /\ report_file' = TRUE
    /\ Ends("completed")
    /\ UNCHANGED <<cache_file, pdf_files, preview_files, cfg, feed_params, entry, force, feed,
                   raw_papers, enriched, idx, steps, downloads, run_log, urlVars, selVars, figVars, rtVars>>

(***************************************************************************)
(* ainewsfeed.assets.extract_figures.  A document is [opens, pages]: does  *)
(* fitz.open take it, and its pages, each the list of its images.  An      *)
(* image is [extract_ok, bytes, decode_ok, w, h, save_ok]: does            *)
(* doc.extract_image give it, the length of its encoded bytes, does        *)
(* Image.open take the bytes, its size in pixels, does pil_img.save work.  *)
(***************************************************************************)
FiguresPrefix ==
    <<".","/","f","i","g","u","r","e","s","/">>
PageTag ==
    <<"_","p">>
FigTag ==
    <<"_","f","i","g">>
PngSuffix ==
    <<".","p","n","g">>

\* assets.py:61, 78, 84, 87
PageLimit == 5
MinBytes == 15000
MinPixels == 200
MaxAspect == 5

\* str(n) for n >= 0
RECURSIVE Str(_)
Str(n) == IF n < 10 THEN <<DigitSeq[n + 1]>> ELSE Str(n \div 10) \o <<DigitSeq[(n % 10) + 1]>>

BytesOkMutant(n) == n > MinBytes

\* assets.py:78: len(image_bytes) < 15000 rejects
BytesOk(n) == ~(n < MinBytes)

\* assets.py:84: w < 200 or h < 200 rejects
PixelsOk(w, h) == ~(w < MinPixels \/ h < MinPixels)

\* assets.py:86-87: aspect = w / h; aspect > 5 or aspect < 0.2 rejects.  For
\* whole w and h > 0 the quotient is below 0.2 exactly when 5 * w < h.
AspectOk(w, h) == ~(w > MaxAspect * h \/ MaxAspect * w < h)

\* The body of the try block for one image: is its path appended?
Saved(img) ==
    /\ img.extract_ok
    /\ BytesOk(img.bytes)
    /\ img.decode_ok
    /\ PixelsOk(img.w, img.h)
    /\ AspectOk(img.w, img.h)
    /\ img.save_ok

\* f"./figures/{paper_id}_p{page_index}_fig{img_index}.png", indices from 0
FigurePath(paper_id, page_index, img_index) ==
    FiguresPrefix \o paper_id \o PageTag \o Str(page_index) \o FigTag \o Str(img_index)
        \o PngSuffix

RECURSIVE ScanImagesMutant(_, _, _, _, _, _)
ScanImagesMutant(images, i, paper_id, page_index, max_figures, saved_paths) ==
    IF i > Len(images) \/ Len(saved_paths) >= max_figures THEN saved_paths
    ELSE IF ~Saved(images[i]) THEN saved_paths
    ELSE ScanImagesMutant(images, i + 1, paper_id, page_index, max_figures,
                          Append(saved_paths, FigurePath(paper_id, page_index, i - 1)))

\* The inner loop over the images of one page, from image i (from 1) on.
RECURSIVE ScanImages(_, _, _, _, _, _)
ScanImages(images, i, paper_id, page_index, max_figures, saved_paths) ==
    IF i > Len(images) \/ Len(saved_paths) >= max_figures THEN saved_paths
    ELSE ScanImages(images, i + 1, paper_id, page_index, max_figures,
                    IF Saved(images[i])
                    THEN Append(saved_paths, FigurePath(paper_id, page_index, i - 1))
                    ELSE saved_paths)

\* The outer loop over range(min(5, len(doc))), from page p (from 1) on.
RECURSIVE ScanPages(_, _, _, _, _)
ScanPages(pages, p, paper_id, max_figures, saved_paths) ==
    IF p > Min(PageLimit, Len(pages)) \/ Len(saved_paths) >= max_figures THEN saved_paths
    ELSE ScanPages(pages, p + 1, paper_id, max_figures,
                   ScanImages(pages[p], 1, paper_id, p - 1, max_figures, saved_paths))

\* extract_figures(pdf_path, paper_id, output_dir, max_figures)
extract_figures(doc, paper_id, max_figures) ==
    IF ~doc.opens THEN Raised
    ELSE Returned(ScanPages(doc.pages, 1, paper_id, max_figures, <<>>))

(***************************************************************************)
(* extract_figures called on its own, on documents of up to MaxPages       *)
(* pages and with max_figures up to MaxFigures.                            *)
(***************************************************************************)
MaxPages == 6
MaxFigures == 3

Image(bytes, w, h) ==
    [extract_ok |-> TRUE, bytes |-> bytes, decode_ok |-> TRUE, w |-> w, h |-> h,
     save_ok |-> TRUE]

\* A figure of 400 x 300 whose encoded bytes are exactly 15000, the same
\* with one byte less, an image of 150 x 600, two images whose sides are
\* 1 : 5 and just beyond, and images that fail to extract, decode or save.
ImgAtThreshold == Image(15000, 400, 300)
ImgBelowThreshold == Image(14999, 400, 300)
ImgNarrow == Image(20000, 150, 600)
ImgOneToFive == Image(20000, 200, 1000)
ImgSkinny == Image(20000, 200, 1001)
ImgWide == Image(20000, 1001, 200)
ImgNoExtract == [Image(20000, 400, 300) EXCEPT !.extract_ok = FALSE]
ImgNoDecode == [Image(20000, 400, 300) EXCEPT !.decode_ok = FALSE]
ImgNoSave == [Image(20000, 400, 300) EXCEPT !.save_ok = FALSE]

PageCatalog ==
    {<<>>,
     <<ImgNarrow, ImgAtThreshold, ImgNoDecode, ImgOneToFive>>,
     <<ImgBelowThreshold, ImgSkinny, ImgNoExtract, ImgWide, ImgNoSave, ImgAtThreshold>>}

Documents ==
    {[opens |-> FALSE, pages |-> <<>>]}
        \cup UNION {{[opens |-> TRUE, pages |-> ps] : ps \in [1..n -> PageCatalog]} : n \in 0..MaxPages}

FigInit ==
    /\ fig_doc \in Documents
    /\ fig_max \in 0..MaxFigures
    /\ fig_ret = NotCalled
    /\ fig_pc = "ready"

FigIdle ==
    /\ fig_doc = [opens |-> FALSE, pages |-> <<>>]
    /\ fig_max = 0
    /\ fig_ret = NotCalled
    /\ fig_pc = "idle"

Call_extract_figures ==
    /\ fig_pc = "ready"
    /\ fig_ret' = extract_figures(fig_doc, IdP1, fig_max)
    /\ fig_pc' = "done"
    /\ UNCHANGED <<fig_doc, fig_max, urlVars, selVars, pipeVars, rtVars>>

(***************************************************************************)
(* The cache file written and read back: json.dump(enriched, f, indent=2)  *)
(* (generate_feed.py:190-191) followed by json.load(f)                     *)
(* (generate_feed.py:96-97), on lists of records as the pipeline leaves    *)
(* them.                                                                   *)
(***************************************************************************)
MaxRecords == 2

\* A text with a quote, a backslash in front of an n, a line break and a
\* character outside ASCII.
TrickyText == <<"a", "\"", "\\", "n", "\n", EmptyStar>>

\* The record of P1 after a run in which every lookup succeeded: project
\* link, affiliations, document, preview and a tweet.
PopulatedRecord == Put(SampleEnriched(<<P1>>)[1], "tweets", <<SampleTweet>>)

\* The record of P3 after a run in which nothing was found: no project
\* link, no affiliations, no document; no preview and no tweets key, as
\* generate_feed.main leaves it without a bearer token.
AbsentRecord ==
    LET e == enrich_with_summaries(<<P3>>, CallRaises).value[1]
    IN  WithLocalPdf(WithAuthorsFull(e), download_pdf("absent", "network_error"))

\* The same with the keys present and empty, as run_feed.main leaves it.
EmptyRecord == Put(RunFeedPreview(AbsentRecord, None), "tweets", <<>>)

RecordCatalog ==
    {PopulatedRecord,
     Put(PopulatedRecord, "ai_summary", TrickyText),
     AbsentRecord,
     Put(AbsentRecord, "title", TrickyText),
     EmptyRecord,
     SampleEnriched(<<P2, P1>>)[1]}

RecordLists == UNION {[1..n -> RecordCatalog] : n \in 0..MaxRecords}

AllPopulated(r) ==
    /\ r["project_url"] # None
    /\ r["authors_full"] = AffiliationText
    /\ Get(r, "pdf_preview", None) # None
    /\ Get(r, "tweets", <<>>) # <<>>

AllAbsent(r) ==
    /\ r["project_url"] = None
    /\ r["authors_full"] # AffiliationText
    /\ Get(r, "pdf_preview", None) = None
    /\ Get(r, "tweets", <<>>) = <<>>

RtInit ==
    /\ rt_list \in RecordLists
    /\ rt_file = NoFile
    /\ rt_back = NotCalled
    /\ rt_pc = "idle"

RtIdle ==
    /\ rt_list = <<>>
    /\ rt_file = NoFile
    /\ rt_back = NotCalled
    /\ rt_pc = "idle"

\* generate_feed.py:190-191
DumpCache ==
    /\ rt_pc = "idle"
    /\ rt_file' = FileWith(Dumps(rt_list))
    /\ rt_pc' = "saved"
    /\ UNCHANGED <<rt_list, rt_back, urlVars, selVars, pipeVars, figVars>>

\* generate_feed.py:96-97
LoadCache ==
    /\ rt_pc = "saved"
    /\ rt_back' = Loads(rt_file.content)
    /\ rt_pc' = "loaded"
    /\ UNCHANGED <<rt_list, rt_file, urlVars, selVars, pipeVars, figVars>>

InitUrl == UrlInit /\ SelIdle /\ PipeIdle /\ FigIdle /\ RtIdle

NextUrl ==
    \/ CallExtractFilter
    \/ CallExtractFilterEnrich

SpecUrl == InitUrl /\ [][NextUrl]_vars

InitSelect == SelInit /\ UrlIdle /\ PipeIdle /\ FigIdle /\ RtIdle

NextSelect ==
    \/ Call_filter_papers
    \/ Call_enrich_with_summaries
    \/ Call_filter_and_enrich

SpecSelect == InitSelect /\ [][NextSelect]_vars

\* generate_feed.main as the repository ships it: get_arxiv_papers is
\* fetch.py's.  Next holds the steps main can get to.
Init == PipeInit(GetArxivPapersParams, {NoFile} \cup SampleCaches) /\ UrlIdle /\ SelIdle /\ FigIdle /\ RtIdle

Next ==
    \/ \E f \in BOOLEAN, feed_state \in FeedStates : StartRun(f, feed_state)
    \/ CheckCache
    \/ Fetch
    \/ Report

Spec == Init /\ [][Next]_vars

\* generate_feed.main with a get_arxiv_papers that takes the keywords main
\* passes, started in an empty output directory.
InitStubFeed == PipeInit(FeedKeywords, {NoFile}) /\ UrlIdle /\ SelIdle /\ FigIdle /\ RtIdle

NextStubFeed ==
    \/ \E f \in BOOLEAN, feed_state \in FeedStates : StartRun(f, feed_state)
    \/ CheckCache
    \/ Fetch
    \/ PreFilter
    \/ \E g \in MainRankOutcomes : Filter(g)
    \/ \E g \in MainSummaryOutcomes : Enrich(g)
    \/ \E net \in FetchOutcomes, render_ok \in BOOLEAN : AssetStep(net, render_ok)
    \/ \E found \in SUBSET {TitleP1} : Social(found)
    \/ \E how \in SaveOutcomes : SaveCache(how)
    \/ Report

SpecStubFeed == InitStubFeed /\ [][NextStubFeed]_vars

\* run_feed.main as the repository ships it.
InitRunFeed == PipeInit(GetArxivPapersParams, {NoFile}) /\ UrlIdle /\ SelIdle /\ FigIdle /\ RtIdle

NextRunFeed ==
    \/ \E feed_state \in FeedStates : StartRunFeed(feed_state)
    \/ Fetch
    \/ PreFilter
    \/ \E g \in MainRankOutcomes : Filter(g)
    \/ \E g \in MainSummaryOutcomes : Enrich(g)
    \/ \E net \in FetchOutcomes, render_ok \in BOOLEAN : AssetStep(net, render_ok)
    \/ \E found \in SUBSET {TitleP1} : Social(found)
    \/ Report

SpecRunFeed == InitRunFeed /\ [][NextRunFeed]_vars

InitFigures == FigInit /\ UrlIdle /\ SelIdle /\ PipeIdle /\ RtIdle

NextFigures == Call_extract_figures

SpecFigures == InitFigures /\ [][NextFigures]_vars

\* The cache file alone: written, then read.
InitRoundTrip == RtInit /\ UrlIdle /\ SelIdle /\ PipeIdle /\ FigIdle

NextRoundTrip ==
    \/ DumpCache
    \/ LoadCache

SpecRoundTrip == InitRoundTrip /\ [][NextRoundTrip]_vars
(***************************************************************************)
(* Claims about the link extractor.                                        *)
(***************************************************************************)

\* The items of truth that are URLs, and those that survive the exclusion
\* list: project pages, custom domains and videos.
IsUrlItem(x) == x.item.kind # "word"
Survives(x) == x.item.kind \in {"page", "custom", "short", "watch"}
IsVideo(x) == x.item.kind \in {"short", "watch"}

FirstSurvivor ==
    LET i == CHOOSE j \in 1..Len(truth) :
                 /\ Survives(truth[j])
                 /\ \A k \in 1..(j - 1) : ~Survives(truth[k])
    IN  truth[i]

IsPrefix(p, s) == Len(p) <= Len(s) /\ SubSeq(s, 1, Len(p)) = p

\* What C8 says a call returns for the text written from truth.
SelectsFirstSurvivor(r) ==
    IF \A j \in 1..Len(truth) : ~Survives(truth[j])
    THEN r = None
    ELSE IF IsVideo(FirstSurvivor)
    THEN r # None /\ IsPrefix(EmbedPrefix, r)
    ELSE r = FirstSurvivor.item.s

\* C8: for every text, extract_project_url returns the first URL in
\* occurrence order that survives the exclusion list (rewritten when it is
\* a video URL), and none exactly when no URL survives.
C8_FirstSurvivingUrl ==
    /\ url_f # Pending => SelectsFirstSurvivor(url_f)
    /\ url_fe # Pending => SelectsFirstSurvivor(url_fe)

\* C9: for a text holding a video URL of either recognized shape (here the
\* URL alone, followed by a space), the returned URL is
\* https://www.youtube.com/embed/<id> with the identifier of the input URL.
C9_EmbedSameVideoId ==
    (Len(truth) = 1 /\ IsVideo(truth[1]) /\ truth[1].sep = SepSpace) =>
        /\ url_f # Pending => url_f = EmbedPrefix \o truth[1].item.video_id
        /\ url_fe # Pending => url_fe = EmbedPrefix \o truth[1].item.video_id


\* C19: for every text, ainewsfeed.filter.extract_project_url and
\* ainewsfeed.filter_and_enrich.extract_project_url return the same: the
\* same URL, or both none; a URL followed by the period that ends the
\* sentence included.
C19_ExtractorsAgree ==
    (url_f # Pending /\ url_fe # Pending) => url_f = url_fe

(***************************************************************************)
(* Claims about the selector functions.                                    *)
(***************************************************************************)

SelectorDone(fns) == sel_pc = "done" /\ sel_fn \in fns

\* The collaborator was reached but the call raised, or its response text
\* is not JSON.
CallFailed == sel_g \in {CallRaises, Responds(Garbage)}

Unenriched(p) == "ai_summary" \notin DOMAIN p /\ "star_rating" \notin DOMAIN p

\* C5: when the call to the ranking collaborator raises or its response
\* cannot be parsed, filter_papers and filter_and_enrich_papers_with_gemini
\* return exactly the first `limit` candidates, in input order, none with
\* ai_summary or star_rating.
C5_FallbackFirstLimit ==
    (SelectorDone({"filter_papers", "filter_and_enrich"}) /\ CallFailed) =>
        /\ ~sel_ret.raised
        /\ sel_ret.value.papers = Take(sel_papers, sel_limit)
        /\ \A i \in 1..Len(sel_ret.value.papers) : Unenriched(sel_ret.value.papers[i])

\* C6: filter_papers, enrich_with_summaries and
\* filter_and_enrich_papers_with_gemini return a value instead of raising,
\* whatever fails: building the client, the call, or parsing and
\* reconciling the response.
C6_NoExceptionEscapes ==
    SelectorDone({"filter_papers", "enrich_with_summaries", "filter_and_enrich"}) =>
        ~sel_ret.raised

\* A well-formed response to filter_and_enrich_papers_with_gemini: a list
\* of objects that each name an identifier.
WellFormedRanking ==
    /\ sel_g.client_ok /\ sel_g.call_ok
    /\ IsJArr(sel_g.body)
    /\ \A i \in 1..Len(sel_g.body[2]) :
           /\ IsJObj(sel_g.body[2][i])
           /\ "id" \in DOMAIN sel_g.body[2][i][2]
           /\ IsJStr(sel_g.body[2][i][2]["id"])

NamedAt(i) == sel_g.body[2][i][2]["id"][2]
IsNamed(id) == \E i \in 1..Len(sel_g.body[2]) : NamedAt(i) = id

\* The position of an identifier in the response: where it is named first.
RankOf(id) == CHOOSE i \in 1..Len(sel_g.body[2]) :
                  NamedAt(i) = id /\ \A j \in 1..(i - 1) : NamedAt(j) # id

NamedCandidates == {i \in 1..Len(sel_papers) : IsNamed(sel_papers[i]["id"])}

\* C7: for every candidate list and every well-formed response,
\* filter_and_enrich_papers_with_gemini returns exactly the candidates whose
\* identifier the response names, ordered by the position of their
\* identifier in the response, cut to the first `limit`.
C7_NamedInResponseOrder ==
    (SelectorDone({"filter_and_enrich"}) /\ WellFormedRanking) =>
        LET out == sel_ret.value.papers
        IN  /\ ~sel_ret.raised
            /\ Len(out) = Min(sel_limit, Cardinality(NamedCandidates))
            /\ \A i \in 1..Len(out) :
                   \E k \in NamedCandidates : sel_papers[k]["id"] = out[i]["id"]
            /\ \A i, j \in 1..Len(out) :
                   i < j => RankOf(out[i]["id"]) < RankOf(out[j]["id"])
            /\ \A k \in NamedCandidates :
                   (\A i \in 1..Len(out) : out[i]["id"] # sel_papers[k]["id"]) =>
                       \A i \in 1..Len(out) :
                           RankOf(out[i]["id"]) < RankOf(sel_papers[k]["id"])

\* What the Link Extractor gives for the abstract and for the comment of
\* the i-th candidate.
AbstractLink(i) == extract_project_url(sel_papers[i]["abstract"])
CommentLink(i) == extract_project_url(sel_papers[i]["comment"])

ThisRun == run_log[Len(run_log)]

\* The run under way found a cache file when it started, and --force is not set.
CacheHitRun == run_log # <<>> /\ ThisRun.cached /\ ~force

ProducerRuns == Cardinality({i \in DOMAIN run_log : run_log[i].producer})

\* C1: a run that finds a cache file and has no --force never enters the
\* pipeline and makes none of its calls (no fetch, ranking, summary,
\* affiliation lookup, download, preview or social search); what it takes as
\* the enriched list and what it gives to generate_report is the
\* deserialized content of the cache file.
C1_CacheHitSkipsProducer ==
    CacheHitRun =>
        /\ steps = {}
        /\ downloads = <<>>
        /\ ~ThisRun.producer
        /\ pc \notin {"fetch", "prefilter", "filter", "enrich", "assets", "social", "save"}
        /\ pc = "report" => Returned(enriched) = Loads(cache_file.content)
        /\ handed.rendered => Returned(handed.papers) = Loads(cache_file.content)
        /\ outcome = "completed" => handed.rendered

C1_Witness ==
    /\ CacheHitRun
    /\ outcome = "completed"
    /\ handed.rendered
    /\ handed.papers # <<>>
    /\ Returned(handed.papers) = Loads(cache_file.content)

\* C2: of two runs in sequence for the same period that started from no
\* cache file, both without --force enter the pipeline once in total, and
\* both with --force enter it twice.
C2_ProducerOncePerPeriod ==
    (/\ Len(run_log) = 2
     /\ pc = "exited"
     /\ ~run_log[1].cached
     /\ run_log[1].force = run_log[2].force)
        => ProducerRuns = IF run_log[1].force THEN 2 ELSE 1

C4_PipelineRunSavesCache ==
    (/\ pc = "exited"
     /\ ThisRun.producer
     /\ feed.up /\ feed.papers # <<>>
     /\ outcome # "empty")
        => /\ outcome = "completed"
           /\ handed.rendered
           /\ cache_file.exists
           /\ Loads(cache_file.content) = Returned(handed.papers)

PreviewAborted ==
    /\ outcome = "crashed"
    /\ downloads # <<>>
    /\ downloads[Len(downloads)].preview = "failed"
    /\ idx = Len(downloads)

FetchFailed(d) == d.fetched /\ d.net \in {"network_error", "http_error"}

\* The record's local_pdf is the path of its file in the output directory.
HasLocalPath(paper) ==
    paper["local_pdf"] \in {RelAssetPath \o Slash \o PdfFilename(paper["id"]),
                            DotSlash \o PdfFilename(paper["id"])}

\* The run that has ended had 3 candidates, 2 of them selected, and exactly
\* one of the two downloads failed; the other one has its document.
OneOfTwoDownloadsFailed ==
    /\ pc = "exited"
    /\ ThisRun.producer
    /\ Len(feed.papers) = 3
    /\ Len(downloads) = 2
    /\ \E i, j \in 1..2 :
           /\ i # j
           /\ FetchFailed(downloads[i])
           /\ downloads[j].success /\ downloads[j].net \in {"ok", "none"}

\* C14: a run with 3 candidates, 2 selected and exactly one failed download
\* gives the renderer 2 records, the one whose download failed with the
\* remote URL as local_pdf and the other with a local path; every list given
\* to the renderer by a run through the pipeline has one record per
\* survivor, each with local_pdf set.
C14_TwoEntriesOneFallback ==
    /\ OneOfTwoDownloadsFailed =>
           /\ handed.rendered
           /\ Len(handed.papers) = 2
           /\ \A i \in 1..2 :
                  IF FetchFailed(downloads[i])
                  THEN handed.papers[i]["local_pdf"] = downloads[i].url
                  ELSE HasLocalPath(handed.papers[i])
    /\ (handed.rendered /\ ThisRun.producer) =>
           /\ Len(handed.papers) = Len(downloads)
           /\ \A i \in DOMAIN handed.papers : "local_pdf" \in DOMAIN handed.papers[i]

\* The download of this run's i-th record took the branch "the file
\* exists": success, and the network was not asked.
ExistsBranch(i) == downloads[i].success /\ ~downloads[i].fetched

\* C18: a file lies at a document's path only if a call of download_pdf
\* fetched the whole document with success; so every call that returns
\* success for an existing file without fetching does so for a complete
\* document, never for an error response or a file whose writing stopped.
C18_FileMeansFetched ==
    /\ \A id \in PaperIds : pdf_files[id] \in {"absent", "pdf"}
    /\ \A i \in DOMAIN downloads : ExistsBranch(i) => pdf_files[downloads[i].id] = "pdf"

\* The feed answers and has nothing for the period / has nothing with a
\* project link while the configuration asks for one.
EmptyFeed == feed.up /\ feed.papers = <<>>
EmptyPreFilter ==
    /\ feed.up /\ feed.papers # <<>>
    /\ cfg.require_project_link
    /\ \A i \in DOMAIN feed.papers : ~has_project_link(feed.papers[i])

\* C16: a run of generate_feed.main that goes into the pipeline and finds
\* the feed empty, or the pre-filter's result empty, ends with sys.exit(0);
\* a run that ends so has given nothing to the renderer and has left the
\* cache location as it found it, so that, where there was no cache file,
\* the next run without --force goes into the pipeline again.
C16_EmptyResultExitsZero ==
    /\ (pc = "exited" /\ entry = "generate_feed" /\ ThisRun.producer
            /\ (EmptyFeed \/ EmptyPreFilter))
           => outcome = "empty"
    /\ (pc = "exited" /\ entry = "generate_feed" /\ outcome = "empty") =>
           /\ ~handed.rendered
           /\ cache_file.exists = ThisRun.cached
           /\ ~ThisRun.cached => ~CacheHit(cache_file.exists, FALSE)

(***************************************************************************)
(* Properties of extract_figures.                                          *)
(***************************************************************************)
FigReturned == fig_pc = "done" /\ ~fig_ret.raised

\* The positions (page, image), both from 1, of the document's images.
FigPositions ==
    UNION {{<<p, i>> : i \in 1..Len(fig_doc.pages[p])} : p \in 1..Len(fig_doc.pages)}

ImageAt(pos) == fig_doc.pages[pos[1]][pos[2]]
PathAt(pos) == FigurePath(IdP1, pos[1] - 1, pos[2] - 1)
InResult(pos) == \E k \in 1..Len(fig_ret.value) : fig_ret.value[k] = PathAt(pos)

IsNarrow(img) == img.w = 150 /\ img.h = 600
IsAtThreshold(img) == img = Image(15000, 400, 300)

\* C12 as stated: an image of 150 x 600 is rejected and breaks both the
\* minimum-dimension rule and the aspect-ratio rule; an image of 400 x 300
\* of exactly 15000 bytes that the scan gets to is accepted.
C12_NarrowBreaksBothRules ==
    FigReturned =>
        \A pos \in FigPositions :
            /\ IsNarrow(ImageAt(pos)) =>
                   /\ ~InResult(pos)
                   /\ ~PixelsOk(ImageAt(pos).w, ImageAt(pos).h)
                   /\ ~AspectOk(ImageAt(pos).w, ImageAt(pos).h)
            /\ (/\ IsAtThreshold(ImageAt(pos))
                /\ pos[1] <= 5
                /\ Len(fig_ret.value) < fig_max) => InResult(pos)

\* C12 amended: an image of 150 x 600 is rejected; it breaks the
\* minimum-dimension rule and does not break the aspect-ratio rule (0.25 is
\* within 0.2 .. 5); an image of 400 x 300 of exactly 15000 bytes that the
\* scan gets to is accepted.
C12_NarrowBreaksDimensionRule ==
    FigReturned =>
        \A pos \in FigPositions :
            /\ IsNarrow(ImageAt(pos)) =>
                   /\ ~InResult(pos)
                   /\ ~PixelsOk(ImageAt(pos).w, ImageAt(pos).h)
                   /\ AspectOk(ImageAt(pos).w, ImageAt(pos).h)
            /\ (/\ IsAtThreshold(ImageAt(pos))
                /\ pos[1] <= 5
                /\ Len(fig_ret.value) < fig_max) => InResult(pos)

C12_Witness ==
    /\ FigReturned
    /\ \E pos \in FigPositions : pos[1] <= 5 /\ IsNarrow(ImageAt(pos)) /\ ~InResult(pos)
    /\ \E pos \in FigPositions : IsAtThreshold(ImageAt(pos)) /\ InResult(pos)

\* Images of the first 5 pages whose path the try block appends.
Passing == {pos \in FigPositions : pos[1] <= 5 /\ Saved(ImageAt(pos))}

Before(a, b) == a[1] < b[1] \/ (a[1] = b[1] /\ a[2] < b[2])
RankIn(S, pos) == Cardinality({q \in S : Before(q, pos)}) + 1

\* C13: a call on a document that opens returns the paths of the first
\* max_figures images, in page order then image order, among the images of
\* the first 5 pages that pass the filters and are processed without an
\* exception; so at most max_figures paths, and an image that is rejected or
\* raises does not keep a later one out.
C13_FirstPassingFigures ==
    fig_pc = "done" =>
        /\ fig_ret.raised <=> ~fig_doc.opens
        /\ ~fig_ret.raised =>
               /\ Len(fig_ret.value) <= fig_max
               /\ Len(fig_ret.value) = Min(fig_max, Cardinality(Passing))
               /\ \A pos \in Passing :
                      RankIn(Passing, pos) <= fig_max =>
                          fig_ret.value[RankIn(Passing, pos)] = PathAt(pos)

C13_Witness ==
    /\ FigReturned
    /\ Len(fig_doc.pages) > 5
    /\ fig_max = 2
    /\ Len(fig_ret.value) = 2
    /\ Cardinality(Passing) > 2
    /\ \E pos \in FigPositions : ~Saved(ImageAt(pos)) /\ \E q \in FigPositions : Before(pos, q) /\ InResult(q)
    /\ \E pos \in FigPositions : pos[1] > 5 /\ Saved(ImageAt(pos))

\* C15: the list read back from the cache file is the list that was
\* written: the load does not fail, the length and the order are the same,
\* and each record has the same keys with equal values, whether its
\* optional fields (project URL, affiliation, preview, tweets) are all
\* there or all missing.
C15_CacheRoundTrip ==
    rt_pc = "loaded" =>
        /\ ~rt_back.raised
        /\ Len(rt_back.value) = Len(rt_list)
        /\ \A i \in DOMAIN rt_list :
               /\ rt_back.value[i]["id"] = rt_list[i]["id"]
               /\ DOMAIN rt_back.value[i] = DOMAIN rt_list[i]
               /\ \A k \in DOMAIN rt_list[i] : rt_back.value[i][k] = rt_list[i][k]

C15_Witness ==
    /\ rt_pc = "loaded"
    /\ \E i, j \in DOMAIN rt_list :
           /\ AllPopulated(rt_list[i])
           /\ TrickyText \in {rt_list[i][k] : k \in DOMAIN rt_list[i]}
           /\ AllAbsent(rt_list[j])
           /\ "pdf_preview" \notin DOMAIN rt_list[j]
    /\ rt_back = Returned(rt_list)
=============================================================================
